---- MODULE Spec2Model ----
(***************************************************************************)
(* The games data-access layer (package data): ValidateGame and the        *)
(* GameModel methods Insert, Get, Update, Delete and GetAll, run against   *)
(* the games table of the migrations.                                      *)
(*                                                                         *)
(* The store is the PostgreSQL table; each method sends one statement.     *)
(* A statement is modelled by what the server does with its text and the   *)
(* arguments bound to it: it is prepared (target list, placeholders and    *)
(* argument count are checked), executed against the rows (WHERE, SET,     *)
(* NOT NULL and CHECK constraints), and its result columns are scanned     *)
(* into the destinations the method passes.                                *)
(*                                                                         *)
(* One identifier is blank in the SQL of the source (a column of CREATE    *)
(* TABLE, its CHECK constraint, one item of GetAll's select list).  It is  *)
(* modelled as a column named "unnamed".                                   *)
(***************************************************************************)
EXTENDS Integers, Sequences, FiniteSets, TLC

VARIABLES
    store,   \* the games table: a function from the ids present to rows
    seq,     \* the bigserial sequence behind games.id: the last value drawn
    ret,     \* the last completed call of the API: arguments and results
    pc,      \* per writer: where its read-modify-write request stands
    wgame,   \* per writer: the *Game the request holds
    werr,    \* per writer: what its Update returned
    wseen,   \* per writer: the version its Get observed
    vgame,   \* the Game handed to ValidateGame
    vpc,     \* whether ValidateGame has run on vgame
    verrs,   \* the Validator's Errors map after ValidateGame
    deleted  \* history: the ids a Delete has removed

vars == <<store, seq, ret, pc, wgame, werr, wseen, vgame, vpc, verrs, deleted>>

----------------------------------------------------------------------------
(* Bounds of the model *)

\* ids 1..MaxId may be present in the table when the program starts
MaxId == 2
\* version tokens are 1..MaxVersion; 0 is the zero uuid.UUID
MaxVersion == 2
\* the calendar year of time.Now() and of the server's now()
CurrentYear == 2026
\* the sequence is drawn at most up to MaxId + MaxInserts
MaxInserts == 1
\* the requests that read, modify and write one game concurrently
NumWriters == 2
\* GetAll is asked for pages 1..MaxPage of 1..MaxPageSize rows
MaxPage == 2
MaxPageSize == 2

(* Program constants *)

MaxTitleBytes == 500
MinYear == 1888
MinGenres == 1
MaxGenres == 5

----------------------------------------------------------------------------
(* Values *)

LongTitle == "xxxxxxxxxxxxxxxxxxxxxxxxxxxxxxxxxxxxxxxxxxxxxxxxxxxxxxxxxxxxxxxxxxxxxxxxxxxxxxxxxxxxxxxxxxxxxxxxxxxxxxxxxxxxxxxxxxxxxxxxxxxxxxxxxxxxxxxxxxxxxxxxxxxxxxxxxxxxxxxxxxxxxxxxxxxxxxxxxxxxxxxxxxxxxxxxxxxxxxxxxxxxxxxxxxxxxxxxxxxxxxxxxxxxxxxxxxxxxxxxxxxxxxxxxxxxxxxxxxxxxxxxxxxxxxxxxxxxxxxxxxxxxxxxxxxxxxxxxxxxxxxxxxxxxxxxxxxxxxxxxxxxxxxxxxxxxxxxxxxxxxxxxxxxxxxxxxxxxxxxxxxxxxxxxxxxxxxxxxxxxxxxxxxxxxxxxxxxxxxxxxxxxxxxxxxxxxxxxxxxxxxxxxxxxxxxxxxxxxxxxxxxxxxxxxxxxxxxxxxxxxxxxxxxxxxxxxxxxxxxxxxxxxxxxxxxxxxxxxxxx"

\* a []string: nil, or a (possibly empty) list
NilSlice == [isNil |-> TRUE, elems |-> <<>>]
Slice(s) == [isNil |-> FALSE, elems |-> s]

SixGenres == <<"rpg", "fps", "rts", "sim", "mmo", "puzzle">>

\* type Game struct; the zero value of every field
ZeroGame == [ID |-> 0, CreatedAt |-> 0, Title |-> "", Year |-> 0,
             Genres |-> NilSlice, Version |-> 0]

\* The concurrency token.  CREATE TABLE declares version integer DEFAULT 1,
\* Game.Version is a uuid.UUID and Update stores uuid_generate_v4(); the
\* token is kept opaque here: only equality of versions is used
Versions == 1..MaxVersion
Timestamps == {1}

\* errors: nil and the two sentinels; every other error is the store's or
\* the driver's own, passed through: "syntax_error", "indeterminate_datatype",
\* "not_null_violation", "check_violation" (the server's), "args_mismatch",
\* "scan_mismatch" (the driver's)
NoError == "nil"
ErrRecordNotFound == "record not found"
ErrEditConflict == "edit conflict"

SetMax(S) == CHOOSE x \in S : \A y \in S : y <= x
Range(s) == {s[i] : i \in 1..Len(s)}

----------------------------------------------------------------------------
(* The schema: CREATE TABLE games and the CHECK constraints added to it *)

\* version integer NOT NULL DEFAULT 1
DefaultVersion == 1
\* year BETWEEN 1888 AND date_part('year', now())
YearCheckMin == 1888
\* array_length(genres, 1) BETWEEN 1 AND 5
GenresCheckMin == 1
GenresCheckMax == 5

\* A value of SQL: NULL, or an integer
SqlNull == [null |-> TRUE, n |-> 0]
SqlInt(n) == [null |-> FALSE, n |-> n]

\* array_length(a, 1): NULL for an array with no elements
ArrayLength(a) == IF Len(a) = 0 THEN SqlNull ELSE SqlInt(Len(a))

\* x BETWEEN lo AND hi in three-valued logic
Between(x, lo, hi) ==
    IF x.null THEN "unknown"
    ELSE IF lo <= x.n /\ x.n <= hi THEN "true" ELSE "false"

\* A CHECK constraint rejects a row only when its expression is false
CheckHolds(v) == v # "false"

games_unnamed_check(row) == CheckHolds(IF row.unnamed >= 0 THEN "true" ELSE "false")
games_year_check(row) == CheckHolds(Between(SqlInt(row.year), YearCheckMin, CurrentYear))
genres_length_check(row) ==
    CheckHolds(Between(ArrayLength(row.genres), GenresCheckMin, GenresCheckMax))

CheckConstraints(row) ==
    /\ games_unnamed_check(row)
    /\ games_year_check(row)
    /\ genres_length_check(row)

\* The rows the table can hold when the program starts: whatever the schema
\* admits, among a few titles, years and genre lists
CandidateRows(id) ==
    [id : {id}, created_at : {0}, title : {"Doom"},
     year : {1887, 1993}, unnamed : {0},
     genres : {<<>>, <<"rpg">>, SixGenres}, version : {DefaultVersion}]

TableRows(id) == {row \in CandidateRows(id) : CheckConstraints(row)}

\* id is the primary key: the row under key i has id i
StoreOK(t) == \A i \in DOMAIN t : t[i].id = i

Tables ==
    {t \in UNION {[S -> UNION {TableRows(i) : i \in S}] : S \in SUBSET (1..MaxId)} :
        StoreOK(t)}

----------------------------------------------------------------------------
(* The statements: what each method's query text names and what it binds *)

\* targets/exprs: the column list and VALUES list of an INSERT;
\* params: the placeholders $n the text uses; args: the arguments bound;
\* columns: the result columns; dests: the destinations given to Scan
InsertStmt ==
    [targets |-> <<"title", "year", "genres">>, exprs |-> <<1, 2, 3, 4>>,
     params |-> {1, 2, 3, 4}, args |-> 3,
     columns |-> <<"id", "created_at", "version">>, dests |-> 3]

GetStmt ==
    [targets |-> <<>>, exprs |-> <<>>, params |-> {1}, args |-> 1,
     columns |-> <<"id", "created_at", "title", "year", "genres", "version">>,
     dests |-> 6]

UpdateStmt ==
    [targets |-> <<>>, exprs |-> <<>>, params |-> {1, 2, 4, 5, 6}, args |-> 5,
     columns |-> <<"version">>, dests |-> 1]

DeleteStmt ==
    [targets |-> <<>>, exprs |-> <<>>, params |-> {1}, args |-> 1,
     columns |-> <<>>, dests |-> 0]

GetAllStmt ==
    [targets |-> <<>>, exprs |-> <<>>, params |-> {1, 2, 3, 4}, args |-> 4,
     columns |-> <<"count", "id", "created_at", "title", "year", "unnamed",
                   "genres", "version">>,
     dests |-> 7]

\* Preparing a statement: the server rejects an INSERT with more or fewer
\* expressions than target columns, and a text that skips a placeholder
\* number (the type of the skipped one cannot be determined); the driver
\* rejects an argument list of another length than the placeholders
Prepare(stmt) ==
    IF Len(stmt.targets) # Len(stmt.exprs) THEN "syntax_error"
    ELSE IF stmt.params # 1..SetMax(stmt.params) THEN "indeterminate_datatype"
    ELSE IF SetMax(stmt.params) # stmt.args THEN "args_mismatch"
    ELSE NoError

\* Scanning a result row: as many destinations as result columns
ScanRow(stmt) ==
    IF Len(stmt.columns) # stmt.dests THEN "scan_mismatch" ELSE NoError

----------------------------------------------------------------------------
(* package validator, and ValidateGame *)

\* A Validator's Errors map: a function from the fields in error to messages
NewValidator == [k \in {} |-> ""]

\* Check: record the message unless ok, or unless the field has one already
Check(v, ok, key, message) ==
    IF ok \/ key \in DOMAIN v THEN v
    ELSE [k \in DOMAIN v \cup {key} |-> IF k = key THEN message ELSE v[k]]

Valid(v) == DOMAIN v = {}

\* Unique: no value occurs twice
Unique(values) ==
    \A i, j \in 1..Len(values) : values[i] = values[j] => i = j

ValidateGameYearOffByOne(game) ==
    LET v1 == Check(NewValidator, game.Title # "", "title", "must be provided")
        v2 == Check(v1, Len(game.Title) <= MaxTitleBytes, "title",
                    "must not be more than 500 bytes long")
        v3 == Check(v2, game.Year # 0, "year", "must be provided")
        v4 == Check(v3, game.Year > MinYear, "year", "must be greater than 1888")
        v5 == Check(v4, game.Year <= CurrentYear, "year", "must not be in the future")
        v6 == Check(v5, ~game.Genres.isNil, "genres", "must be provided")
        v7 == Check(v6, Len(game.Genres.elems) >= MinGenres, "genres",
                    "must contain at least 1 genre")
        v8 == Check(v7, Len(game.Genres.elems) <= MaxGenres, "genres",
                    "must not contain more than 5 genres")
    IN  Check(v8, Unique(game.Genres.elems), "genres",
              "must not contain duplicate values")

ValidateGame(game) ==
    LET v1 == Check(NewValidator, game.Title # "", "title", "must be provided")
        v2 == Check(v1, Len(game.Title) <= MaxTitleBytes, "title",
                    "must not be more than 500 bytes long")
        v3 == Check(v2, game.Year # 0, "year", "must be provided")
        v4 == Check(v3, game.Year >= MinYear, "year", "must be greater than 1888")
        v5 == Check(v4, game.Year <= CurrentYear, "year", "must not be in the future")
        v6 == Check(v5, ~game.Genres.isNil, "genres", "must be provided")
        v7 == Check(v6, Len(game.Genres.elems) >= MinGenres, "genres",
                    "must contain at least 1 genre")
        v8 == Check(v7, Len(game.Genres.elems) <= MaxGenres, "genres",
                    "must not contain more than 5 genres")
    IN  Check(v8, Unique(game.Genres.elems), "genres",
              "must not contain duplicate values")

----------------------------------------------------------------------------
(* GameModel: what each method's statement does to the table *)

\* A driver value for a []string argument: NULL for a nil slice
IsNullArg(slice) == slice.isNil

\* Columns an INSERT must name: NOT NULL and without a DEFAULT
RequiredColumns == {"title", "year", "unnamed", "genres"}

\* uuid_generate_v4(): a token no row carries
UuidGenerateV4(t) == Versions \ {t[i].version : i \in DOMAIN t}

\* What a method hands back: the error, the table and the sequence after
\* the call, whether a request went to the store, the *Game (some = FALSE:
\* a nil pointer), and for GetAll the slice (gamesNil: a nil slice) and the
\* Metadata
ZeroMetadata ==
    [CurrentPage |-> 0, PageSize |-> 0, FirstPage |-> 0, LastPage |-> 0,
     TotalRecords |-> 0]

Result(err, t, s, queried, some, game) ==
    [err |-> err, store |-> t, seq |-> s, queried |-> queried, some |-> some,
     game |-> game, games |-> <<>>, gamesNil |-> TRUE, meta |-> ZeroMetadata]

\* A stored row as the Game that Scan fills
RowGame(row) ==
    [ID |-> row.id, CreatedAt |-> row.created_at, Title |-> row.title,
     Year |-> row.year, Genres |-> Slice(row.genres), Version |-> row.version]

\* INSERT INTO games (title, year, genres) VALUES (...) RETURNING id, created_at, version
Insert(t, s, game, now) ==
    LET perr == Prepare(InsertStmt)
        id == s + 1
        row == [id |-> id, created_at |-> now, title |-> game.Title,
                year |-> game.Year, unnamed |-> 0,
                genres |-> game.Genres.elems, version |-> DefaultVersion]
    IN  IF perr # NoError THEN Result(perr, t, s, TRUE, TRUE, game)
        ELSE IF RequiredColumns \ Range(InsertStmt.targets) # {}
                \/ IsNullArg(game.Genres)
             THEN Result("not_null_violation", t, id, TRUE, TRUE, game)
        ELSE IF ~CheckConstraints(row)
             THEN Result("check_violation", t, id, TRUE, TRUE, game)
        ELSE IF ScanRow(InsertStmt) # NoError
             THEN Result(ScanRow(InsertStmt),
                         [i \in DOMAIN t \cup {id} |-> IF i = id THEN row ELSE t[i]],
                         id, TRUE, TRUE, game)
        ELSE Result(NoError,
                    [i \in DOMAIN t \cup {id} |-> IF i = id THEN row ELSE t[i]],
                    id, TRUE, TRUE,
                    [game EXCEPT !.ID = id, !.CreatedAt = now,
                                 !.Version = DefaultVersion])

GetGuardNegativeOnly(id) == id < 0

\* if id < 1
GetGuard(id) == id < 1

\* SELECT id, created_at, title, year, genres, version FROM games WHERE id = $1
Get(t, s, id) ==
    IF GetGuard(id) THEN Result(ErrRecordNotFound, t, s, FALSE, FALSE, ZeroGame)
    ELSE IF Prepare(GetStmt) # NoError
         THEN Result(Prepare(GetStmt), t, s, TRUE, FALSE, ZeroGame)
    ELSE IF id \notin DOMAIN t
         THEN Result(ErrRecordNotFound, t, s, TRUE, FALSE, ZeroGame)
    ELSE IF ScanRow(GetStmt) # NoError
         THEN Result(ScanRow(GetStmt), t, s, TRUE, FALSE, ZeroGame)
    ELSE Result(NoError, t, s, TRUE, TRUE, RowGame(t[id]))

\* WHERE id = $5 AND version = $6, bound to game.ID and game.Version
UpdateWhere(row, game) == row.id = game.ID /\ row.version = game.Version

\* SET title = ..., year = ..., genres = ..., version = uuid_generate_v4()
UpdateSet(row, game, nv) ==
    [row EXCEPT !.title = game.Title, !.year = game.Year,
                !.genres = game.Genres.elems, !.version = nv]

\* An UPDATE whose text and arguments agree but whose WHERE names only the
\* version: every row carrying that version is rewritten
UpdateWithoutIdPredicate(t, s, game, nv) ==
    LET hit == {i \in DOMAIN t : t[i].version = game.Version}
    IN  IF hit = {} THEN Result(ErrEditConflict, t, s, TRUE, TRUE, game)
        ELSE Result(NoError,
                    [i \in DOMAIN t |-> IF i \in hit THEN UpdateSet(t[i], game, nv)
                                        ELSE t[i]],
                    s, TRUE, TRUE, [game EXCEPT !.Version = nv])

\* UPDATE games SET ... WHERE id = $5 AND version = $6 RETURNING version
Update(t, s, game, nv) ==
    LET perr == Prepare(UpdateStmt)
        hit == {i \in DOMAIN t : UpdateWhere(t[i], game)}
        new == [i \in DOMAIN t |-> IF i \in hit THEN UpdateSet(t[i], game, nv)
                                   ELSE t[i]]
    IN  IF perr # NoError THEN Result(perr, t, s, TRUE, TRUE, game)
        ELSE IF hit = {} THEN Result(ErrEditConflict, t, s, TRUE, TRUE, game)
        ELSE IF IsNullArg(game.Genres)
             THEN Result("not_null_violation", t, s, TRUE, TRUE, game)
        ELSE IF \E i \in hit : ~CheckConstraints(new[i])
             THEN Result("check_violation", t, s, TRUE, TRUE, game)
        ELSE IF ScanRow(UpdateStmt) # NoError
             THEN Result(ScanRow(UpdateStmt), new, s, TRUE, TRUE, game)
        ELSE Result(NoError, new, s, TRUE, TRUE, [game EXCEPT !.Version = nv])

DeleteWhereFromId(row, id) == row.id >= id

\* WHERE id = $1
DeleteWhere(row, id) == row.id = id

\* DELETE FROM games WHERE id = $1
Delete(t, s, id) ==
    LET hit == {i \in DOMAIN t : DeleteWhere(t[i], id)}
        rowsAffected == Cardinality(hit)
    IN  IF id < 1 THEN Result(ErrRecordNotFound, t, s, FALSE, FALSE, ZeroGame)
        ELSE IF Prepare(DeleteStmt) # NoError
             THEN Result(Prepare(DeleteStmt), t, s, TRUE, FALSE, ZeroGame)
        ELSE IF rowsAffected = 0
             THEN Result(ErrRecordNotFound, t, s, TRUE, FALSE, ZeroGame)
        ELSE Result(NoError, [i \in DOMAIN t \ hit |-> t[i]], s, TRUE, FALSE,
                    ZeroGame)

----------------------------------------------------------------------------
(* Filters, Metadata and GetAll *)

\* The sort values the safelist admits
SortSafelist == {"id", "-id", "year", "-year"}

\* sortColumn: the sort field without its leading "-"
sortColumn(f) ==
    CASE f.Sort \in {"id", "-id"} -> "id"
      [] f.Sort \in {"year", "-year"} -> "year"

\* sortDirection: DESC when the sort field starts with "-"
sortDirection(f) == IF f.Sort \in {"-id", "-year"} THEN "DESC" ELSE "ASC"

limit(f) == f.PageSize
offset(f) == (f.Page - 1) * f.PageSize

\* calculateMetadata: the zero Metadata for no records, else the page
\* numbers, with the last page the ceiling of totalRecords / pageSize
calculateMetadata(totalRecords, page, pageSize) ==
    IF totalRecords = 0 THEN ZeroMetadata
    ELSE [CurrentPage |-> page, PageSize |-> pageSize, FirstPage |-> 1,
          LastPage |-> (totalRecords + pageSize - 1) \div pageSize,
          TotalRecords |-> totalRecords]

\* to_tsvector('simple', title) and plainto_tsquery('simple', $1): the
\* lower-cased words of the text
Lexemes(text) ==
    CASE text = "" -> {}
      [] text = "Doom" -> {"doom"}
      [] text = "Quake" -> {"quake"}
      [] OTHER -> {text}

\* (to_tsvector('simple', title) @@ plainto_tsquery('simple', $1) OR $1 = '')
TitleMatches(row, title) ==
    \/ Lexemes(title) # {} /\ Lexemes(title) \subseteq Lexemes(row.title)
    \/ title = ""

\* (genres @> $2 OR $2 = '{}'); both are NULL, not true, for a NULL $2
GenresMatch(row, genres) ==
    /\ ~IsNullArg(genres)
    /\ \/ Range(genres.elems) \subseteq Range(row.genres)
       \/ genres.elems = <<>>

\* ORDER BY <sortColumn> <sortDirection>, id ASC
OrderedBefore(a, b, f) ==
    LET ka == IF sortColumn(f) = "id" THEN a.id ELSE a.year
        kb == IF sortColumn(f) = "id" THEN b.id ELSE b.year
    IN  IF ka = kb THEN a.id < b.id
        ELSE IF sortDirection(f) = "ASC" THEN ka < kb ELSE ka > kb

OrderBy(ids, t, f) ==
    CHOOSE s \in [1..Cardinality(ids) -> ids] :
        \A i, j \in 1..Cardinality(ids) :
            i < j => OrderedBefore(t[s[i]], t[s[j]], f)

\* LIMIT $3 OFFSET $4
LimitOffset(s, lim, off) ==
    SubSeq(s, off + 1, IF off + lim < Len(s) THEN off + lim ELSE Len(s))

\* SELECT count(*) OVER(), ... FROM games WHERE ... ORDER BY ... LIMIT $3 OFFSET $4,
\* then the loop over rows.Next() and calculateMetadata
GetAll(t, s, title, genres, f) ==
    LET hit == {i \in DOMAIN t : TitleMatches(t[i], title) /\ GenresMatch(t[i], genres)}
        count == Cardinality(hit)
        rows == LimitOffset(OrderBy(hit, t, f), limit(f), offset(f))
        totalRecords == IF Len(rows) = 0 THEN 0 ELSE count
        failed == Result(NoError, t, s, TRUE, FALSE, ZeroGame)
    IN  IF Prepare(GetAllStmt) # NoError
        THEN [failed EXCEPT !.err = Prepare(GetAllStmt)]
        ELSE IF Len(rows) > 0 /\ ScanRow(GetAllStmt) # NoError
        THEN [failed EXCEPT !.err = ScanRow(GetAllStmt)]
        ELSE [failed EXCEPT
                 !.games = [i \in 1..Len(rows) |-> RowGame(t[rows[i]])],
                 !.gamesNil = FALSE,
                 !.meta = calculateMetadata(totalRecords, f.Page, f.PageSize)]

----------------------------------------------------------------------------
(* The calls, and what they are called with *)

Writers == 1..NumWriters
MaxSeq == MaxId + MaxInserts

FiveGenres == <<"rpg", "fps", "rts", "sim", "mmo">>

\* Games handed to ValidateGame
ValidateInputs ==
    [ID : {0}, CreatedAt : {0}, Title : {"", "Doom", LongTitle},
     Year : {0, MinYear - 1, MinYear, CurrentYear, CurrentYear + 1},
     Genres : {NilSlice, Slice(<<>>), Slice(<<"rpg">>), Slice(<<"rpg", "rpg">>),
               Slice(FiveGenres), Slice(SixGenres)},
     Version : {0}]

\* Games handed to Insert, validated or not
InsertInputs ==
    [ID : {0}, CreatedAt : {0}, Title : {"", "Quake"},
     Year : {MinYear - 1, 1996},
     Genres : {NilSlice, Slice(<<>>), Slice(<<"fps">>), Slice(SixGenres)},
     Version : {0}]

\* Games handed to Update directly, validated or not
UpdateInputs ==
    [ID : 1..(MaxId + 1), CreatedAt : {0}, Title : {"Quake"},
     Year : {MinYear - 1, 1996}, Genres : {Slice(<<"fps">>)}, Version : Versions]
    \cup
    [ID : 1..(MaxId + 1), CreatedAt : {0}, Title : {"Quake"},
     Year : {1996}, Genres : {Slice(<<>>)}, Version : Versions]

IdInputs == (-1)..(MaxId + 1)

QueryInputs ==
    [title : {"", "Quake"},
     genres : {NilSlice, Slice(<<>>), Slice(<<"rpg">>)},
     f : [Page : 1..MaxPage, PageSize : 1..MaxPageSize, Sort : {"id", "-id"}]]

NoQuery == [title |-> "", genres |-> NilSlice,
            f |-> [Page |-> 1, PageSize |-> 1, Sort |-> "id"]]

Call(op, id, arg, q, res) ==
    [op |-> op, id |-> id, arg |-> arg, q |-> q, before |-> store, res |-> res]

NoCall == [op |-> "none", id |-> 0, arg |-> ZeroGame, q |-> NoQuery,
           before |-> [i \in {} |-> 0],
           res |-> Result(NoError, [i \in {} |-> 0], 0, FALSE, FALSE, ZeroGame)]

Returns(res, call) ==
    /\ store' = res.store
    /\ seq' = res.seq
    /\ ret' = call

InsertCall ==
    \E game \in InsertInputs, now \in Timestamps :
        /\ seq < MaxSeq
        /\ LET res == Insert(store, seq, game, now)
           IN  Returns(res, Call("Insert", 0, game, NoQuery, res))
        /\ UNCHANGED <<pc, wgame, werr, wseen, vgame, vpc, verrs, deleted>>

GetCall ==
    \E id \in IdInputs :
        /\ LET res == Get(store, seq, id)
           IN  Returns(res, Call("Get", id, ZeroGame, NoQuery, res))
        /\ UNCHANGED <<pc, wgame, werr, wseen, vgame, vpc, verrs, deleted>>

UpdateCall ==
    \E game \in UpdateInputs :
        \E nv \in UuidGenerateV4(store) :
            /\ LET res == Update(store, seq, game, nv)
               IN  Returns(res, Call("Update", game.ID, game, NoQuery, res))
            /\ UNCHANGED <<pc, wgame, werr, wseen, vgame, vpc, verrs, deleted>>

DeleteCall ==
    \E id \in IdInputs :
        /\ LET res == Delete(store, seq, id)
           IN  /\ Returns(res, Call("Delete", id, ZeroGame, NoQuery, res))
               /\ deleted' = deleted \cup (DOMAIN store \ DOMAIN res.store)
        /\ UNCHANGED <<pc, wgame, werr, wseen, vgame, vpc, verrs>>

GetAllCall ==
    \E q \in QueryInputs :
        /\ LET res == GetAll(store, seq, q.title, q.genres, q.f)
           IN  Returns(res, Call("GetAll", 0, ZeroGame, q, res))
        /\ UNCHANGED <<pc, wgame, werr, wseen, vgame, vpc, verrs, deleted>>

Init ==
    /\ store \in Tables
    /\ seq = MaxId
    /\ ret = NoCall
    /\ pc = [w \in Writers |-> "start"]
    /\ wgame = [w \in Writers |-> ZeroGame]
    /\ werr = [w \in Writers |-> NoError]
    /\ wseen = [w \in Writers |-> 0]
    /\ vgame = ZeroGame
    /\ vpc = "fresh"
    /\ verrs = NewValidator
    /\ deleted = {}

Next == InsertCall \/ GetCall \/ UpdateCall \/ DeleteCall \/ GetAllCall

Spec == Init /\ [][Next]_vars

----------------------------------------------------------------------------
(* Concurrent read-modify-write requests: each gets a game, sets its own     *)
(* title, year and genres on it, and updates it with the version it read.    *)

\* The fields writer w sets on the game it read
WriterEdit(w, game) ==
    [game EXCEPT !.Title = IF w = 1 THEN "Quake" ELSE "Myst",
                 !.Year = 1990 + w,
                 !.Genres = Slice(<<IF w = 1 THEN "fps" ELSE "puzzle">>)]

WGet(w) ==
    /\ pc[w] = "start"
    /\ \E id \in 1..MaxId :
        LET res == Get(store, seq, id)
        IN  IF res.err # NoError
            THEN /\ pc' = [pc EXCEPT ![w] = "failed"]
                 /\ UNCHANGED <<wgame, wseen>>
            ELSE /\ pc' = [pc EXCEPT ![w] = "got"]
                 /\ wgame' = [wgame EXCEPT ![w] = res.game]
                 /\ wseen' = [wseen EXCEPT ![w] = res.game.Version]
    /\ UNCHANGED <<store, seq, ret, werr, vgame, vpc, verrs, deleted>>

WUpdate(w) ==
    /\ pc[w] = "got"
    /\ \E nv \in UuidGenerateV4(store) :
        LET res == Update(store, seq, WriterEdit(w, wgame[w]), nv)
        IN  /\ store' = res.store
            /\ seq' = res.seq
            /\ wgame' = [wgame EXCEPT ![w] = res.game]
            /\ werr' = [werr EXCEPT ![w] = res.err]
            /\ pc' = [pc EXCEPT ![w] = "done"]
    /\ UNCHANGED <<ret, wseen, vgame, vpc, verrs, deleted>>

NextConc == \E w \in Writers : WGet(w) \/ WUpdate(w)

SpecConc == Init /\ [][NextConc]_vars

----------------------------------------------------------------------------
(* ValidateGame on a fresh Validator *)

InitValidate ==
    /\ store = [i \in {} |-> 0]
    /\ seq = 0
    /\ ret = NoCall
    /\ pc = [w \in Writers |-> "start"]
    /\ wgame = [w \in Writers |-> ZeroGame]
    /\ werr = [w \in Writers |-> NoError]
    /\ wseen = [w \in Writers |-> 0]
    /\ vgame \in ValidateInputs
    /\ vpc = "fresh"
    /\ verrs = NewValidator
    /\ deleted = {}

ValidateCall ==
    /\ vpc = "fresh"
    /\ verrs' = ValidateGame(vgame)
    /\ vpc' = "validated"
    /\ UNCHANGED <<store, seq, ret, pc, wgame, werr, wseen, vgame, deleted>>

NextValidate == ValidateCall

SpecValidate == InitValidate /\ [][NextValidate]_vars

----------------------------------------------------------------------------
(* The claims *)

\* The last call was an Update whose id and version are those of a stored row
UpdateMatched ==
    /\ ret.op = "Update"
    /\ \E i \in DOMAIN ret.before : UpdateWhere(ret.before[i], ret.arg)

\* C1: Update succeeds only if a stored row has both game.ID and
\* game.Version; in every other case (no such id, or another version) it
\* returns ErrEditConflict and every stored row is left as it was.
C1_UpdateConflictOnMismatch ==
    ret.op = "Update" =>
        /\ ret.res.err = NoError => UpdateMatched
        /\ ~UpdateMatched => ret.res.err = ErrEditConflict /\ store = ret.before

\* The writers that have finished their Update after reading game id at
\* version v
Finished(id, v) ==
    {w \in Writers : pc[w] = "done" /\ wgame[w].ID = id /\ wseen[w] = v}

\* C2: of the requests that read the same game at the same version and then
\* update it with that version, at most one Update succeeds and every other
\* one returns ErrEditConflict; the stored row then holds the fields of the
\* one that succeeded.
C2_NoLostUpdate ==
    \A id \in 1..MaxId, v \in Versions :
        /\ Cardinality({w \in Finished(id, v) : werr[w] = NoError}) <= 1
        /\ \A w \in Finished(id, v) :
            /\ werr[w] \in {NoError, ErrEditConflict}
            /\ werr[w] = NoError /\ id \in DOMAIN store =>
                   RowGame(store[id]) = wgame[w]

C4_InsertThenGet ==
    ret.op = "Insert" /\ Valid(ValidateGame(ret.arg)) =>
        /\ ret.res.err = NoError
        /\ LET got == Get(store, seq, ret.res.game.ID)
           IN  /\ got.err = NoError
               /\ got.game = ret.res.game
               /\ got.game.Title = ret.arg.Title
               /\ got.game.Year = ret.arg.Year
               /\ got.game.Genres = ret.arg.Genres

\* C5: Delete of an id with no row returns ErrRecordNotFound and leaves the
\* table as it was; Delete of an id with a row returns nil and removes that
\* row and no other; a removed id never has a row again, so every later Get
\* and Delete of it returns ErrRecordNotFound and every later Update fails.
C5_Delete ==
    /\ ret.op = "Delete" /\ ret.id \notin DOMAIN ret.before =>
           ret.res.err = ErrRecordNotFound /\ store = ret.before
    /\ ret.op = "Delete" /\ ret.id \in DOMAIN ret.before =>
           /\ ret.res.err = NoError
           /\ store = [i \in DOMAIN ret.before \ {ret.id} |-> ret.before[i]]
    /\ deleted \cap DOMAIN store = {}
    /\ ret.op = "Get" /\ ret.id \in deleted => ret.res.err = ErrRecordNotFound
    /\ ret.op = "Update" /\ ret.id \in deleted => ret.res.err # NoError

\* C5 witness: an id was deleted while another row stayed, and a later
\* Delete of the same id has returned
C5_Witness ==
    /\ ret.op = "Delete"
    /\ ret.id \in deleted
    /\ ret.id \notin DOMAIN ret.before
    /\ DOMAIN store # {}

\* C6: Get and Delete of an id below 1 return ErrRecordNotFound without a
\* request to the store, and the table is untouched.
C6_NoStoreCallBelowOne ==
    ret.op \in {"Get", "Delete"} /\ ret.id < 1 =>
        /\ ret.res.err = ErrRecordNotFound
        /\ ~ret.res.queried
        /\ store = ret.before

\* C6 witness: Get(0) has returned against a table that holds rows
C6_Witness == ret.op = "Get" /\ ret.id = 0 /\ DOMAIN store # {}

\* The rows the title and genre filters of the last GetAll match
MatchCount ==
    Cardinality({i \in DOMAIN ret.before :
                    /\ TitleMatches(ret.before[i], ret.q.title)
                    /\ GenresMatch(ret.before[i], ret.q.genres)})

\* C7: for every GetAll, whatever the page, Metadata.TotalRecords is the
\* number of rows matching the filters, and Metadata is the zero value only
\* when no row matches, and then the page is an empty non-nil slice.
C7_TotalRecords ==
    ret.op = "GetAll" =>
        /\ ret.res.meta.TotalRecords = MatchCount
        /\ ret.res.meta = ZeroMetadata =>
               MatchCount = 0 /\ ~ret.res.gamesNil /\ ret.res.games = <<>>

\* C8: after ValidateGame on a fresh Validator, Valid() is true exactly when
\* the title is non-empty and at most 500 bytes, the year is non-zero and in
\* [1888, current year], and genres is non-nil with 1 to 5 distinct entries.
C8_ValidIff ==
    vpc = "validated" =>
        (Valid(verrs) <=>
            /\ vgame.Title # "" /\ Len(vgame.Title) <= 500
            /\ vgame.Year # 0 /\ vgame.Year >= 1888 /\ vgame.Year <= CurrentYear
            /\ ~vgame.Genres.isNil
            /\ Len(vgame.Genres.elems) \in 1..5
            /\ Cardinality(Range(vgame.Genres.elems)) = Len(vgame.Genres.elems))

\* C8 witness: a game of the year 1888 with five genres was found valid
C8_Witness ==
    /\ vpc = "validated"
    /\ Valid(verrs)
    /\ vgame.Year = 1888
    /\ Len(vgame.Genres.elems) = 5

\* C9: no call changes the id or created_at of a stored row; an Update,
\* successful or not, changes at most title, year, genres and version of
\* the row it targets; Get and GetAll change no row.
C9_Frame ==
    /\ \A i \in DOMAIN ret.before \cap DOMAIN store :
           /\ store[i].id = ret.before[i].id
           /\ store[i].created_at = ret.before[i].created_at
    /\ ret.op = "Update" =>
           /\ DOMAIN store = DOMAIN ret.before
           /\ \A i \in DOMAIN store :
                  /\ i # ret.id => store[i] = ret.before[i]
                  /\ store[i].unnamed = ret.before[i].unnamed
    /\ ret.op \in {"Get", "GetAll"} => store = ret.before

\* C9 witness: an Update presenting the stored version of a row has
\* returned, with a second row in the table
C9_Witness ==
    /\ UpdateMatched
    /\ Cardinality(DOMAIN store) >= 2

\* The row an Insert or Update of game asks the table to hold
RowOf(game) ==
    [id |-> game.ID, created_at |-> 0, title |-> game.Title, year |-> game.Year,
     unnamed |-> 0, genres |-> game.Genres.elems, version |-> DefaultVersion]

\* C10: an Insert or Update of a game whose year is outside [1888, current
\* year] or whose genre count is outside 1..5 (an empty list included) is
\* rejected by the CHECK constraints: the call returns an error and no row
\* is created or changed.
C10_SchemaRejects ==
    /\ ret.op \in {"Insert", "Update"}
    /\ ~ret.arg.Genres.isNil
    /\ \/ ret.arg.Year < 1888
       \/ ret.arg.Year > CurrentYear
       \/ Len(ret.arg.Genres.elems) \notin 1..5
    => /\ ~CheckConstraints(RowOf(ret.arg))
       /\ ret.res.err # NoError
       /\ store = ret.before
====
